---- MODULE Spec2Model ----
(***************************************************************************)
(* Model of the simple-aws-alias scripts:                                  *)
(*   create-aliases.py      alias workflow with pre-existence scan         *)
(*   domain-alias-setup.py  batch domain provisioning + alias creation     *)
(*   create_alias.py        single-domain provisioning + alias creation    *)
(*   domain-setup.py        DNS upserts with idempotent short-circuit      *)
(* The two remote services (alias provider, DNS provider) are modelled as  *)
(* state the scripts read and change; every remote call may fail.          *)
(***************************************************************************)
EXTENDS Integers, Sequences, FiniteSets, TLC

VARIABLES
    env,        \* configuration read at startup (environment / flags)
    aliases,    \* remote: the alias list of the alias provider, in listing order
    mailboxes,  \* remote: the mailbox list of the alias provider
    pc,         \* position of the running script
    di,         \* index into env.domains of the domain being processed
    cda,        \* create_domain_aliases: its locals and its return value
    aliasLast,  \* what the most recent create_alias call did
    calls,      \* number of create_alias calls made so far
    fetchLast,  \* what the most recent stand-alone get_all_aliases call did
    aliasKey,   \* remote: whether an alias object in a response body has the key 'alias'
    zone,       \* remote: the record sets of each domain's hosted zone
    dnsLast,    \* what the most recent DNS upsert call did
    step,       \* setup_domain: index of the DNS step being worked on
    wait,       \* wait_for_verification: its locals and its return value
    opLog,      \* the remote operations issued for the domain being set up
    results     \* main: the outcome reported for each domain processed so far

vars == <<env, aliases, mailboxes, pc, di, cda, aliasLast, calls, fetchLast,
          aliasKey, zone, dnsLast, step, wait, opLog, results>>

----------------------------------------------------------------------------
(* Bounds of the model *)

MaxPairs == 2
MaxCreated == 2
MaxMailboxes == 2
MaxListed == 47
MaxSetupDomains == 2
MaxScanned == 41

(* Program constants *)

PageSize == 20

Domains == {"example.com", "other.org"}
Prefixes == {"sales", "support"}

Min(S) == CHOOSE x \in S : \A y \in S : x <= y
SeqsUpTo(S, n) == UNION {[1..k -> S] : k \in 0..n}

----------------------------------------------------------------------------
(* The alias provider *)

Email(prefix, domain) == [p |-> prefix, d |-> domain]
FillerEmail == Email("filler", "elsewhere.net")
Filler(i) == [id |-> i, email |-> FillerEmail, has_alias_key |-> FALSE]
Fillers(n) == [i \in 1..n |-> Filler(i)]

\* One page of the remote alias list, PageSize entries per page.
Page(list, page_id) ==
    SubSeq(list, page_id * PageSize + 1,
           IF Len(list) < (page_id + 1) * PageSize THEN Len(list)
           ELSE (page_id + 1) * PageSize)

\* Mutant of get_aliases: a failure is not turned into the empty list.
get_aliases_Mut(list, page_id, fails) == Page(list, page_id)

\* get_aliases: a non-200 answer or an exception gives the empty list.
get_aliases(list, page_id, fails) ==
    IF fails THEN <<>> ELSE Page(list, page_id)

\* Mutant of LastPage: a full page ends the loop too.
LastPage_Mut(page) == Len(page) <= PageSize

\* The loop condition of get_all_aliases after a non-empty page.
LastPage(page) == Len(page) < PageSize

RECURSIVE all_aliases_loop(_, _, _, _, _)
all_aliases_loop(list, failSet, page_id, all_aliases, reqs) ==
    LET page == get_aliases(list, page_id, page_id \in failSet)
        r == Append(reqs, page_id)
    IN  IF page = <<>> THEN [aliases |-> all_aliases, reqs |-> r]
        ELSE IF LastPage(page) THEN [aliases |-> all_aliases \o page, reqs |-> r]
        ELSE all_aliases_loop(list, failSet, page_id + 1, all_aliases \o page, r)

\* get_all_aliases: the aggregated list and the page ids requested, in order.
get_all_aliases(list, failSet) == all_aliases_loop(list, failSet, 0, <<>>, <<>>)

\* f"{prefix}@{domain}"
target_alias(domain, prefix) == Email(prefix, domain)

\* The scan of create_alias: the first listed alias whose email is the target.
find_alias(existing, target) ==
    LET I == {i \in DOMAIN existing : existing[i].email = target}
    IN  IF I = {} THEN <<>> ELSE <<existing[Min(I)]>>

\* Mutant of suffix_matches: the custom flag is not looked at.
suffix_matches_Mut(s, domain) == s.d = domain

\* s.get('is_custom') and s.get('suffix').endswith("@" + domain)
suffix_matches(s, domain) == s.is_custom /\ s.d = domain

\* The first matching suffix of the options, or none.
find_suffix(suffixes, domain) ==
    LET I == {i \in DOMAIN suffixes : suffix_matches(suffixes[i], domain)}
    IN  IF I = {} THEN <<>> ELSE <<suffixes[Min(I)]>>

\* get_mailboxes: a non-200 answer or an exception gives the empty list.
get_mailboxes(list, fails) == IF fails THEN <<>> ELSE list

find_mailbox(list, email) ==
    LET I == {i \in DOMAIN list : list[i].email = email}
    IN  IF I = {} THEN <<>> ELSE <<list[Min(I)]>>

\* Mutant of first_default: the first mailbox of the list, flagged or not.
first_default_Mut(list) == IF list = <<>> THEN <<>> ELSE <<list[1]>>

\* next((m for m in mailboxes if m.get('default')), None)
first_default(list) ==
    LET I == {i \in DOMAIN list : list[i].default}
    IN  IF I = {} THEN <<>> ELSE <<list[Min(I)]>>

Suffixes == [is_custom : BOOLEAN, d : Domains]
\* What the alias-options endpoint may answer: a failure, or a suffix list.
OptionAnswers == {<<"fail", <<>>>>} \cup {<<"ok", l>> : l \in SeqsUpTo(Suffixes, 1)}

\* The record of one create_alias call: its arguments, the page ids it asked
\* for, the answer of the options endpoint (opt), the mailbox requests and the
\* mailbox settled on (mb), the creation request, its status, the value returned,
\* and whether any remote request of the call was answered with an error.
NoCall == [domain |-> "", prefix |-> "", pages |-> <<>>, options |-> FALSE, opt |-> <<>>,
           mb_gets |-> 0, mb_post |-> <<>>, mb |-> <<>>, post |-> <<>>,
           post_status |-> 0, result |-> <<>>, errors |-> FALSE]

NoWait == [step |-> "", di |-> 0, attempts |-> 0, answers |-> <<>>, last |-> "",
           sleeps |-> 0, slept |-> 0, ret |-> "none"]

NoFetch == [aliases |-> <<>>, reqs |-> <<>>, failed |-> FALSE]

NewCda == [attempts |-> <<>>, success |-> TRUE, ret |-> "none"]

\* get_or_create_mailbox: the mailbox with that email of the fetched list, else a
\* creation request; the remote refuses once it holds MaxMailboxes mailboxes.
get_or_create_mailbox(list, email, getFails, postOk) ==
    LET found == find_mailbox(get_mailboxes(list, getFails), email)
        m == [id |-> 51 + Len(list), email |-> email, default |-> FALSE]
    IN  IF found # <<>> THEN [mb |-> found, post |-> FALSE, list |-> list]
        ELSE IF postOk /\ Len(list) < MaxMailboxes
             THEN [mb |-> <<m>>, post |-> TRUE, list |-> Append(list, m)]
             ELSE [mb |-> <<>>, post |-> TRUE, list |-> list]

\* The page fetches that may go wrong during one get_all_aliases call.
FailSets == {{}} \cup {{k} : k \in 0..2}

\* The remote did its part in a create_alias call: every request was answered
\* with success, and the options, when asked for, held a custom suffix of the
\* domain.
served(call) ==
    /\ ~call.errors
    /\ call.opt # <<>> => (call.opt[1][1] = "ok" /\ find_suffix(call.opt[1][2], call.domain) # <<>>)

\* The end of a create_alias call that changed nothing remotely.
AliasReturn(call) ==
    /\ aliasLast' = call
    /\ calls' = calls + 1
    /\ UNCHANGED <<aliases, mailboxes>>

\* The alias-creation request of create_alias (POST v3/alias/custom/new).
PostAlias(call, prefix, suffix, mb, mbList, postOk) ==
    LET payload == [alias_prefix |-> prefix, signed_suffix |-> suffix,
                    mailbox_ids |-> <<mb.id>>]
        created == Cardinality({i \in DOMAIN aliases : aliases[i].email # FillerEmail})
        new == [id |-> Len(aliases) + 1,
                email |-> Email(prefix, suffix.d),
                has_alias_key |-> aliasKey]
        ok == postOk /\ created < MaxCreated
    IN  /\ aliasLast' = [call EXCEPT !.post = <<payload>>,
                                     !.post_status = IF ok THEN 201 ELSE 400,
                                     !.errors = @ \/ ~ok,
                                     !.result = IF ok THEN <<new>> ELSE <<>>]
        /\ calls' = calls + 1
        /\ mailboxes' = mbList
        /\ aliases' = IF ok THEN Append(aliases, new) ELSE aliases

\* The outcomes of a remote request: either one when the request is made, one
\* only (it plays no part) when it is not.
Answers(made) == IF made THEN BOOLEAN ELSE {FALSE}

\* create_alias of create-aliases.py when the page fetches of failSet go wrong,
\* with every other remote answer it may get.
create_alias_scan(domain, prefix, failSet) ==
      LET scan == get_all_aliases(aliases, failSet)
          hit == find_alias(scan.aliases, target_alias(domain, prefix))
          c0 == [NoCall EXCEPT !.domain = domain, !.prefix = prefix,
                               !.pages = scan.reqs,
                               !.errors = \E i \in DOMAIN scan.reqs : scan.reqs[i] \in failSet]
      IN  IF hit # <<>> THEN AliasReturn([c0 EXCEPT !.result = hit])
          ELSE \E opt \in OptionAnswers :
            LET suffix == IF opt[1] = "fail" THEN <<>> ELSE find_suffix(opt[2], domain)
                c1 == [c0 EXCEPT !.options = TRUE, !.opt = <<opt>>,
                                 !.errors = @ \/ opt[1] = "fail"]
            IN  IF suffix = <<>> THEN AliasReturn(c1)
                ELSE \E g1 \in Answers(env.default_mailbox # <<>>),
                        mp \in Answers(env.default_mailbox # <<>>) :
                  LET goc == IF env.default_mailbox # <<>>
                             THEN get_or_create_mailbox(mailboxes, env.default_mailbox[1],
                                                        g1, mp)
                             ELSE [mb |-> <<>>, post |-> FALSE, list |-> mailboxes]
                      second == goc.mb = <<>>
                  IN  \E g2 \in Answers(second), ap \in BOOLEAN :
                        LET mb == IF second THEN first_default(get_mailboxes(goc.list, g2))
                                  ELSE goc.mb
                            c2 == [c1 EXCEPT
                                     !.mb = mb,
                                     !.errors = \/ @
                                                \/ env.default_mailbox # <<>> /\ g1
                                                \/ goc.post /\ goc.mb = <<>>
                                                \/ second /\ g2,
                                     !.mb_gets = (IF env.default_mailbox # <<>> THEN 1 ELSE 0)
                                                 + (IF second THEN 1 ELSE 0),
                                     !.mb_post = IF goc.post THEN env.default_mailbox
                                                 ELSE <<>>]
                        IN  IF mb = <<>>
                            THEN /\ aliasLast' = c2
                                 /\ calls' = calls + 1
                                 /\ mailboxes' = goc.list
                                 /\ UNCHANGED aliases
                            ELSE PostAlias(c2, prefix, suffix[1], mb[1], goc.list, ap)

\* create_alias of create-aliases.py, with every remote answer it may get.
create_alias(domain, prefix) ==
    \E failSet \in FailSets : create_alias_scan(domain, prefix, failSet)

----------------------------------------------------------------------------
(* The DNS provider and the upserts of AWSRoute53Manager *)

TTL == 6
TTL3600 == 3600

MX1 == "10 mx1.simplelogin.co."
MX2 == "20 mx2.simplelogin.co."
SPF == "v=spf1 include:simplelogin.co ~all"
DMARC == "v=DMARC1; p=quarantine; pct=100; adkim=s; aspf=s"
VerificationCode == "verification-code"
OtherValue == "other"

DkimPrefixes == <<"dkim", "dkim02", "dkim03">>
\* f'{prefix}._domainkey.simplelogin.co.'
DkimValue(prefix) ==
    CASE prefix = "dkim" -> "dkim._domainkey.simplelogin.co."
      [] prefix = "dkim02" -> "dkim02._domainkey.simplelogin.co."
      [] prefix = "dkim03" -> "dkim03._domainkey.simplelogin.co."

\* The record sets the scripts touch: apex MX, apex TXT, the three DKIM CNAMEs
\* (named by their prefix) and the TXT of _dmarc.
RecNames == {"MX", "TXT", "dkim", "dkim02", "dkim03", "_dmarc"}
Rec(ttl, vals) == <<[ttl |-> ttl, vals |-> vals]>>
Change(name, ttl, vals) == [name |-> name, ttl |-> ttl, vals |-> vals]

EmptyZone == [n \in RecNames |-> <<>>]
EmptyZones == [d \in Domains |-> EmptyZone]

NoDns == [impl |-> "", op |-> "", domain |-> "", zone_found |-> FALSE, reads |-> {},
          read_failed |-> {}, requests |-> <<>>, ret |-> FALSE, tick |-> FALSE]

\* get_record: the record set, or None when the listing raises.
get_record(z, name, readFailed) == IF name \in readFailed THEN <<>> ELSE z[name]

\* existing and existing.get('ResourceRecords') == new_records
mx_matches(existing) == existing # <<>> /\ existing[1].vals = <<MX1, MX2>>

\* existing and any(r['Value'] == new_value for r in existing['ResourceRecords'])
txt_has(existing, value) ==
    existing # <<>> /\ \E i \in DOMAIN existing[1].vals : existing[1].vals[i] = value

\* Mutant of dkim_needs_change: no short-circuit, every sub-record is upserted.
dkim_needs_change_Mut(existing, prefix) == TRUE

\* not existing or existing['ResourceRecords'][0]['Value'] != new_value
dkim_needs_change(existing, prefix) ==
    existing = <<>> \/ existing[1].vals[1] # DkimValue(prefix)

\* The record sets an upsert of domain-setup.py reads.
ReadNames(op) ==
    CASE op = "mx" -> {"MX"}
      [] op = "spf" -> {"TXT"}
      [] op = "dkim" -> {"dkim", "dkim02", "dkim03"}
      [] op = "dmarc" -> {"_dmarc"}

\* domain-setup.py: the changes an upsert puts in its change request, given the
\* zone and the reads that failed; none means no request is issued.
DS_changes(op, z, readFailed) ==
    CASE op = "mx" ->
           IF mx_matches(get_record(z, "MX", readFailed)) THEN <<>>
           ELSE <<Change("MX", TTL, <<MX1, MX2>>)>>
      [] op = "spf" ->
           IF txt_has(get_record(z, "TXT", readFailed), SPF) THEN <<>>
           ELSE <<Change("TXT", TTL, <<SPF>>)>>
      [] op = "dkim" ->
           LET need(prefix) == dkim_needs_change(get_record(z, prefix, readFailed), prefix)
               ch(prefix) == IF need(prefix)
                             THEN <<Change(prefix, TTL, <<DkimValue(prefix)>>)>>
                             ELSE <<>>
           IN  ch("dkim") \o ch("dkim02") \o ch("dkim03")
      [] op = "dmarc" ->
           IF txt_has(get_record(z, "_dmarc", readFailed), DMARC) THEN <<>>
           ELSE <<Change("_dmarc", TTL, <<DMARC>>)>>

\* domain-alias-setup.py and create_alias.py: the change request of an upsert,
\* issued whatever the zone holds.
AS_changes(op) ==
    CASE op = "verification" -> <<Change("TXT", TTL3600, <<VerificationCode>>)>>
      [] op = "mx" -> <<Change("MX", TTL3600, <<MX1, MX2>>)>>
      [] op = "spf" -> <<Change("TXT", TTL3600, <<SPF>>)>>
      [] op = "dkim" -> <<Change("dkim", TTL3600, <<DkimValue("dkim")>>),
                          Change("dkim02", TTL3600, <<DkimValue("dkim02")>>),
                          Change("dkim03", TTL3600, <<DkimValue("dkim03")>>)>>
      [] op = "dmarc" -> <<Change("_dmarc", TTL3600, <<DMARC>>)>>

\* Mutant of Upsert: the values of a change are added to those the record set
\* holds.
Upsert_Mut(z, changes) ==
    [n \in RecNames |->
       LET I == {i \in DOMAIN changes : changes[i].name = n}
       IN  IF I = {} THEN z[n]
           ELSE LET c == changes[CHOOSE i \in I : \A j \in I : j <= i]
                IN  IF z[n] = <<>> THEN Rec(c.ttl, c.vals)
                    ELSE Rec(c.ttl, z[n][1].vals \o c.vals)]

\* change_resource_record_sets with Action UPSERT: every record set of the batch
\* is created or replaced.
Upsert(z, changes) ==
    [n \in RecNames |->
       LET I == {i \in DOMAIN changes : changes[i].name = n}
       IN  IF I = {} THEN z[n]
           ELSE LET c == changes[CHOOSE i \in I : \A j \in I : j <= i]
                IN  Rec(c.ttl, c.vals)]

\* One upsert call: the zone lookup, the reads (domain-setup.py only), at most
\* one change request, the boolean returned.
DnsCall(impl, op, domain) ==
    \E zoneFound \in BOOLEAN :
      LET c0 == [impl |-> impl, op |-> op, domain |-> domain, zone_found |-> zoneFound,
                 reads |-> {}, read_failed |-> {}, requests |-> <<>>, ret |-> FALSE,
                 tick |-> ~dnsLast.tick]
      IN  IF ~zoneFound THEN dnsLast' = c0 /\ zone' = zone
          ELSE \E readFailed \in (IF impl = "domain-setup" THEN SUBSET ReadNames(op)
                                   ELSE {{}}),
                  changeOk \in BOOLEAN :
            LET changes == IF impl = "domain-setup"
                           THEN DS_changes(op, zone[domain], readFailed)
                           ELSE AS_changes(op)
                c1 == [c0 EXCEPT !.reads = IF impl = "domain-setup" THEN ReadNames(op)
                                           ELSE {},
                                 !.read_failed = readFailed]
            IN  IF changes = <<>>
                THEN dnsLast' = [c1 EXCEPT !.ret = TRUE] /\ zone' = zone
                ELSE /\ dnsLast' = [c1 EXCEPT !.requests = <<changes>>, !.ret = changeOk]
                     /\ zone' = IF changeOk
                                THEN [zone EXCEPT ![domain] = Upsert(zone[domain], changes)]
                                ELSE zone

----------------------------------------------------------------------------
(* The upserts on their own, in any order, against zones of every shape *)

\* The upserts that work on the same record sets, and the states those record
\* sets may be in before the first call.
OpGroups == {{"mx"}, {"verification", "spf"}, {"dkim"}, {"dmarc"}}

DkimStates(prefix) == {<<>>, Rec(TTL, <<DkimValue(prefix)>>), Rec(TTL3600, <<OtherValue>>)}

InitZones(ops) ==
    CASE ops = {"mx"} ->
           {[EmptyZone EXCEPT !["MX"] = m] :
              m \in {<<>>, Rec(TTL, <<MX1, MX2>>), Rec(TTL3600, <<MX2, MX1>>),
                      Rec(TTL3600, <<MX1, MX2>>), Rec(TTL, <<MX1, MX2, OtherValue>>)}}
      [] ops = {"verification", "spf"} ->
           {[EmptyZone EXCEPT !["TXT"] = t] :
              t \in {<<>>, Rec(TTL, <<SPF>>), Rec(TTL3600, <<OtherValue, SPF>>),
                      Rec(TTL3600, <<OtherValue>>)}}
      [] ops = {"dkim"} ->
           {[EmptyZone EXCEPT !["dkim"] = a, !["dkim02"] = b, !["dkim03"] = c] :
              a \in DkimStates("dkim"), b \in DkimStates("dkim02"),
              c \in DkimStates("dkim03")}
      [] ops = {"dmarc"} ->
           {[EmptyZone EXCEPT !["_dmarc"] = x] :
              x \in {<<>>, Rec(TTL, <<DMARC>>), Rec(TTL3600, <<OtherValue, DMARC>>),
                      Rec(TTL3600, <<OtherValue>>)}}

\* domain-setup.py: one of its four upserts.
DS_Upsert ==
    /\ pc = "dns"
    /\ \E op \in env.ops \ {"verification"} : DnsCall("domain-setup", op, "example.com")
    /\ UNCHANGED <<env, aliases, mailboxes, pc, di, cda, aliasLast, calls, fetchLast,
                   aliasKey,
                   step, wait, opLog, results>>

\* domain-alias-setup.py / create_alias.py: one of its five upserts.
AS_Upsert ==
    /\ pc = "dns"
    /\ \E op \in env.ops : DnsCall("domain-alias-setup", op, "example.com")
    /\ UNCHANGED <<env, aliases, mailboxes, pc, di, cda, aliasLast, calls, fetchLast,
                   aliasKey,
                   step, wait, opLog, results>>

InitDns ==
    /\ \E ops \in OpGroups :
         /\ env = [script |-> "AWSRoute53Manager", api_key |-> TRUE, domains |-> <<>>,
                   prefixes |-> <<>>, default_mailbox |-> <<>>, ops |-> ops]
         /\ zone \in {[EmptyZones EXCEPT !["example.com"] = z] : z \in InitZones(ops)}
    /\ aliases = <<>>
    /\ mailboxes = <<>>
    /\ aliasKey = TRUE
    /\ pc = "dns"
    /\ di = 1
    /\ cda = NewCda
    /\ aliasLast = NoCall
    /\ calls = 0
    /\ fetchLast = NoFetch
    /\ dnsLast = NoDns
    /\ step = 1
    /\ wait = NoWait
    /\ opLog = <<>>
    /\ results = <<>>

SpecDns == InitDns /\ [][DS_Upsert \/ AS_Upsert]_vars

----------------------------------------------------------------------------
(* create-aliases.py: create_domain_aliases and main *)

Mailbox(id, email, default) == [id |-> id, email |-> email, default |-> default]
InitMailboxLists ==
    { <<>>,
      <<Mailbox(51, "me@example.com", FALSE), Mailbox(52, "default@example.com", TRUE)>>,
      <<Mailbox(51, "default@example.com", FALSE), Mailbox(52, "me@example.com", TRUE)>> }

\* The configurations a script may start with: a complete one, or one that lacks
\* the credential, the domain list or the prefix list. The names are
\* interchangeable, so every list starts with the same one; a configuration
\* has at most MaxPairs (domain, prefix) pairs.
Configs(script) ==
    LET all == [script : {script}, api_key : {TRUE},
                domains : {l \in SeqsUpTo(Domains, MaxPairs) :
                             l # <<>> /\ l[1] = "example.com"},
                prefixes : {l \in SeqsUpTo(Prefixes, MaxPairs) :
                              l # <<>> /\ l[1] = "sales"},
                default_mailbox : {<<>>, <<"default@example.com">>}]
        full == {c \in all : Len(c.domains) * Len(c.prefixes) <= MaxPairs}
        one == [script |-> script, api_key |-> TRUE, domains |-> <<"example.com">>,
                prefixes |-> <<"sales">>, default_mailbox |-> <<>>]
    IN  full \cup {[one EXCEPT !.api_key = FALSE], [one EXCEPT !.domains = <<>>],
                   [one EXCEPT !.prefixes = <<>>]}

\* print_status(f"... {result['alias']}"): the key lookup on the returned object.
has_key_alias(result) == result.has_alias_key

\* The value of success after one loop iteration of create_domain_aliases.
next_success(success, result) == IF result # <<>> THEN success ELSE FALSE

\* Mutant of config_error: the prefix list is not looked at.
config_error_Mut(e) == ~e.api_key \/ e.domains = <<>>

\* The checks at the top of main: the credential, the domain list, and (not in
\* domain-setup.py, which creates no alias) the mailbox prefix list.
config_error(e) ==
    \/ ~e.api_key
    \/ e.domains = <<>>
    \/ e.script # "domain-setup" /\ e.prefixes = <<>>

\* main up to the first call of create_domain_aliases: the configuration checks.
CA_Start ==
    /\ pc = "start"
    /\ env.script = "create-aliases"
    /\ pc' = IF config_error(env) THEN "exit1" ELSE "cda"
    /\ UNCHANGED <<env, aliases, mailboxes, di, cda, aliasLast, calls,
                   fetchLast, aliasKey, zone, dnsLast,
                   step, wait, opLog, results>>

\* One iteration of the loop of create_domain_aliases.
CA_Iter ==
    /\ pc = "cda"
    /\ env.script = "create-aliases"
    /\ Len(cda.attempts) < Len(env.prefixes)
    /\ LET prefix == env.prefixes[Len(cda.attempts) + 1]
       IN  /\ create_alias(env.domains[di], prefix)
           /\ LET result == aliasLast'.result
                  att == Append(cda.attempts, [prefix |-> prefix, ok |-> result # <<>>,
                                                clean |-> served(aliasLast')])
              IN  IF result # <<>> /\ ~has_key_alias(result[1])
                  THEN /\ cda' = [cda EXCEPT !.attempts = att, !.ret = "raised"]
                       /\ pc' = "crashed"
                  ELSE /\ cda' = [cda EXCEPT !.attempts = att,
                                      !.success = next_success(cda.success, result)]
                       /\ pc' = pc
    /\ UNCHANGED <<env, di, fetchLast, aliasKey, zone, dnsLast,
                   step, wait, opLog, results>>

\* return success
CA_Return ==
    /\ pc = "cda"
    /\ env.script = "create-aliases"
    /\ Len(cda.attempts) = Len(env.prefixes)
    /\ cda' = [cda EXCEPT !.ret = IF cda.success THEN "true" ELSE "false"]
    /\ pc' = "main"
    /\ UNCHANGED <<env, aliases, mailboxes, di, aliasLast, calls, fetchLast,
                   aliasKey, zone, dnsLast,
                   step, wait, opLog, results>>

\* main: the loop over the domains, after one create_domain_aliases returned.
CA_NextDomain ==
    /\ pc = "main"
    /\ env.script = "create-aliases"
    /\ IF di < Len(env.domains)
       THEN /\ di' = di + 1 /\ cda' = NewCda /\ pc' = "cda"
       ELSE /\ pc' = "done" /\ UNCHANGED <<di, cda>>
    /\ UNCHANGED <<env, aliases, mailboxes, aliasLast, calls, fetchLast,
                   aliasKey, zone, dnsLast,
                   step, wait, opLog, results>>

Init ==
    /\ env \in Configs("create-aliases")
    /\ aliases \in {<<>>, Fillers(PageSize - 1)}
    /\ mailboxes \in InitMailboxLists
    /\ aliasKey \in BOOLEAN
    /\ pc = "start"
    /\ di = 1
    /\ cda = NewCda
    /\ aliasLast = NoCall
    /\ calls = 0
    /\ fetchLast = NoFetch
    /\ zone = EmptyZones
    /\ dnsLast = NoDns
    /\ step = 1
    /\ wait = NoWait
    /\ opLog = <<>>
    /\ results = <<>>

Next == CA_Start \/ CA_Iter \/ CA_Return \/ CA_NextDomain

Spec == Init /\ [][Next]_vars

----------------------------------------------------------------------------
(* domain-alias-setup.py (batch) and create_alias.py (single domain):        *)
(* get the verification code, then per DNS step an upsert and a poll loop    *)

MaxAttempts == 10
SleepInterval == 30

\* Mutant of StepNames: SPF before MX.
StepNames_Mut == <<"verification", "SPF", "MX", "DKIM", "DMARC">>

\* dns_setup_steps of setup_domain
StepNames == <<"verification", "MX", "SPF", "DKIM", "DMARC">>

\* step_name.lower()
Lower(name) ==
    CASE name = "verification" -> "verification"
      [] name = "MX" -> "mx"
      [] name = "SPF" -> "spf"
      [] name = "DKIM" -> "dkim"
      [] name = "DMARC" -> "dmarc"

\* The step names main of create_alias.py passes to wait_for_verification.
SingleSteps == <<"ownership", "mx", "spf", "dkim">>

\* The step name a script polls after the upsert of step i.
PollStep(script, i) ==
    IF script = "domain-alias-setup" THEN Lower(StepNames[i]) ELSE SingleSteps[i]

\* if step_name != 'DMARC'
has_verification(name) == name # "DMARC"

\* Mutant of after_upsert: the result of the upsert is not looked at.
after_upsert_Mut(ok, name) == IF has_verification(name) THEN "wait" ELSE "return"

\* What follows an upsert: setup fails, the poll loop starts, or setup is over.
after_upsert(ok, name) ==
    IF ~ok THEN "fail" ELSE IF has_verification(name) THEN "wait" ELSE "return"

\* Mutant of wait_continue: one attempt too many.
wait_continue_Mut(attempts) == attempts <= MaxAttempts

\* while attempts < max_attempts
wait_continue(attempts) == attempts < MaxAttempts

\* Mutant of sleep_time: a sleep that grows with the attempt number.
sleep_time_Mut(attempts) == SleepInterval * (attempts + 1)

\* Mutant of sleep_time: exponential backoff.
sleep_time_Backoff(attempts) == SleepInterval * (2 ^ attempts)

\* time.sleep(30)
sleep_time(attempts) == SleepInterval

\* The log of remote operations, successive polls of one step written once.
LogOp(log, op) ==
    IF log # <<>> /\ log[Len(log)] = op /\ op[1] = "poll" THEN log ELSE Append(log, op)

IsBatch == env.script = "domain-alias-setup"

\* main after setup_domain or create_domain_aliases is over for a domain: the
\* outcome is reported and the loop goes to the next domain.
NextDomain(outcome) ==
    /\ results' = Append(results, outcome)
    /\ IF di < Len(env.domains)
       THEN pc' = "getcode" /\ di' = di + 1
       ELSE pc' = "done" /\ di' = di

\* setup_domain returns False (batch); sys.exit(1) (single domain).
SetupFailed ==
    IF IsBatch THEN NextDomain("setup_failed")
    ELSE pc' = "exit1" /\ UNCHANGED <<di, results>>

\* main up to the first remote call: the configuration checks.
SU_Start ==
    /\ pc = "start"
    /\ env.script \in {"domain-alias-setup", "create_alias"}
    /\ pc' = IF config_error(env) THEN "exit1" ELSE "getcode"
    /\ UNCHANGED <<env, aliases, mailboxes, di, cda, aliasLast, calls, fetchLast,
                   aliasKey, zone, dnsLast, step, wait, opLog, results>>

\* get_verification_code, the first remote call for a domain.
SU_GetCode ==
    /\ pc = "getcode"
    /\ opLog' = <<<<"code", "">>>>
    /\ step' = 1
    /\ wait' = NoWait
    /\ cda' = NewCda
    /\ \E answer \in {"code", "none", "raise"} :
         CASE answer = "code" -> pc' = "upsert" /\ UNCHANGED <<di, results>>
           [] answer = "none" -> SetupFailed
           [] answer = "raise" -> pc' = "crashed" /\ UNCHANGED <<di, results>>
    /\ UNCHANGED <<env, aliases, mailboxes, aliasLast, calls, fetchLast, aliasKey,
                   zone, dnsLast>>

\* One DNS step of setup_domain: the upsert and what follows it.
SU_Upsert ==
    /\ pc = "upsert"
    /\ LET name == StepNames[step]
       IN  /\ DnsCall("domain-alias-setup", Lower(name), env.domains[di])
           /\ opLog' = Append(opLog, <<"upsert", Lower(name)>>)
           /\ LET go == after_upsert(dnsLast'.ret, name)
              IN  CASE go = "fail" -> SetupFailed /\ UNCHANGED <<wait, cda>>
                    [] go = "wait" ->
                         /\ pc' = "poll"
                         /\ wait' = [NoWait EXCEPT !.step = PollStep(env.script, step),
                                                   !.di = di]
                         /\ UNCHANGED <<di, results, cda>>
                    [] go = "return" ->
                         /\ pc' = IF IsBatch THEN "cda" ELSE "alias"
                         /\ cda' = NewCda
                         /\ UNCHANGED <<di, results, wait>>
    /\ UNCHANGED <<env, aliases, mailboxes, aliasLast, calls, fetchLast, aliasKey, step>>

\* What the verification endpoint may do: status 200 with verified true, status
\* 200 with verified false or absent, another status, or no answer (the HTTP
\* call raises).
PollAnswers == {"verified", "unverified", "non200", "raise"}

\* Mutant of verify_domain_setup: only an explicit verified = false is a no.
verify_domain_setup_Mut(answer) == answer # "unverified"

\* verify_domain_setup: status 200 and response.json().get('verified', False)
verify_domain_setup(answer) == answer = "verified"

\* wait_for_verification: one call of verify_domain_setup.
SU_Poll ==
    /\ pc = "poll"
    /\ opLog' = LogOp(opLog, <<"poll", wait.step>>)
    /\ \E answer \in PollAnswers :
         CASE answer # "raise" /\ verify_domain_setup(answer) ->
                /\ wait' = [wait EXCEPT !.answers = Append(@, TRUE), !.last = answer,
                                        !.ret = "true"]
                /\ pc' = "upsert"
                /\ step' = step + 1
           [] answer # "raise" /\ ~verify_domain_setup(answer) ->
                /\ wait' = [wait EXCEPT !.answers = Append(@, FALSE), !.last = answer]
                /\ pc' = "sleep"
                /\ step' = step
           [] answer = "raise" ->
                /\ wait' = [wait EXCEPT !.last = answer, !.ret = "raised"]
                /\ pc' = "crashed"
                /\ step' = step
    /\ UNCHANGED <<env, aliases, mailboxes, di, cda, aliasLast, calls, fetchLast,
                   aliasKey, zone, dnsLast, results>>

\* wait_for_verification: the sleep, the increment and the loop test after it.
SU_Sleep ==
    /\ pc = "sleep"
    /\ LET a == wait.attempts + 1
           w == [wait EXCEPT !.attempts = a, !.sleeps = @ + 1,
                             !.slept = @ + sleep_time(wait.attempts)]
       IN  IF wait_continue(a)
           THEN wait' = w /\ pc' = "poll" /\ UNCHANGED <<di, results>>
           ELSE wait' = [w EXCEPT !.ret = "false"] /\ SetupFailed
    /\ UNCHANGED <<env, aliases, mailboxes, cda, aliasLast, calls, fetchLast,
                   aliasKey, zone, dnsLast, step, opLog>>

\* create_alias of domain-alias-setup.py and create_alias.py: one creation
\* request, nothing around it; the answer is 201, another status, or an exception.
AS_create_alias(domain, mailbox, answer) ==
    LET payload == [alias_prefix |-> mailbox, signed_suffix |-> [raw |-> domain],
                    mailbox_ids |-> <<>>]
        new == [id |-> Len(aliases) + 1, email |-> Email(mailbox, domain),
                has_alias_key |-> aliasKey]
        ok == answer = "201" /\ Len(aliases) < MaxCreated
    IN  /\ aliasLast' = [NoCall EXCEPT !.domain = domain, !.prefix = mailbox,
                                       !.post = <<payload>>,
                                       !.post_status = IF ok THEN 201
                                                       ELSE IF answer = "raise" THEN 0
                                                       ELSE 400,
                                       !.errors = ~ok,
                                       !.result = IF ok THEN <<new>> ELSE <<>>]
        /\ calls' = calls + 1
        /\ aliases' = IF ok THEN Append(aliases, new) ELSE aliases
        /\ UNCHANGED mailboxes

\* One iteration of the loop of create_domain_aliases (domain-alias-setup.py).
SU_AliasIter ==
    /\ pc = "cda"
    /\ IsBatch
    /\ Len(cda.attempts) < Len(env.prefixes)
    /\ \E answer \in {"201", "other", "raise"} :
         LET prefix == env.prefixes[Len(cda.attempts) + 1]
         IN  /\ AS_create_alias(env.domains[di], prefix, answer)
             /\ LET result == aliasLast'.result
                    att == Append(cda.attempts, [prefix |-> prefix, ok |-> result # <<>>,
                                                clean |-> served(aliasLast')])
                IN  IF answer = "raise" \/ (result # <<>> /\ ~has_key_alias(result[1]))
                    THEN /\ cda' = [cda EXCEPT !.attempts = att, !.ret = "raised"]
                         /\ pc' = "crashed"
                    ELSE /\ cda' = [cda EXCEPT !.attempts = att,
                                        !.success = next_success(cda.success, result)]
                         /\ pc' = pc
    /\ UNCHANGED <<env, di, fetchLast, aliasKey, zone, dnsLast, step, wait, opLog,
                   results>>

\* create_domain_aliases returns and main goes to the next domain.
SU_AliasReturn ==
    /\ pc = "cda"
    /\ IsBatch
    /\ Len(cda.attempts) = Len(env.prefixes)
    /\ cda' = [cda EXCEPT !.ret = IF cda.success THEN "true" ELSE "false"]
    /\ NextDomain(IF cda.success THEN "ok" ELSE "aliases_failed")
    /\ UNCHANGED <<env, aliases, mailboxes, aliasLast, calls, fetchLast, aliasKey,
                   zone, dnsLast, step, wait, opLog>>

\* The end of main of create_alias.py: the one alias.
SU_SingleAlias ==
    /\ pc = "alias"
    /\ \E answer \in {"201", "other", "raise"} :
         /\ AS_create_alias(env.domains[1], env.prefixes[1], answer)
         /\ LET result == aliasLast'.result
            IN  pc' = IF answer = "raise" \/ (result # <<>> /\ ~has_key_alias(result[1]))
                      THEN "crashed"
                      ELSE IF result # <<>> THEN "done" ELSE "exit1"
    /\ UNCHANGED <<env, di, cda, fetchLast, aliasKey, zone, dnsLast, step, wait, opLog,
                   results>>

\* A single-domain configuration: the domain main settled on, one mailbox prefix.
SingleConfigs ==
    {c \in Configs("create_alias") : Len(c.domains) = 1 /\ Len(c.prefixes) <= 1}

\* A batch configuration of at most MaxSetupDomains domains.
BatchConfigs ==
    {c \in Configs("domain-alias-setup") : Len(c.domains) <= MaxSetupDomains}

InitSetup ==
    /\ env \in BatchConfigs \cup SingleConfigs
    /\ aliases = <<>>
    /\ mailboxes = <<>>
    /\ aliasKey \in BOOLEAN
    /\ pc = "start"
    /\ di = 1
    /\ cda = NewCda
    /\ aliasLast = NoCall
    /\ calls = 0
    /\ fetchLast = NoFetch
    /\ zone = EmptyZones
    /\ dnsLast = NoDns
    /\ step = 1
    /\ wait = NoWait
    /\ opLog = <<>>
    /\ results = <<>>

NextSetup ==
    \/ SU_Start \/ SU_GetCode \/ SU_Upsert \/ SU_Poll \/ SU_Sleep
    \/ SU_AliasIter \/ SU_AliasReturn \/ SU_SingleAlias

SpecSetup == InitSetup /\ [][NextSetup]_vars

----------------------------------------------------------------------------
(* domain-setup.py: main and setup_domain, the upserts with a manual check   *)
(* between them                                                               *)

\* The upserts of setup_domain, in order.
DSSteps == <<"mx", "spf", "dkim", "dmarc">>

\* main after setup_domain is over for a domain.
DS_NextDomain(outcome) ==
    /\ results' = Append(results, outcome)
    /\ IF di < Len(env.domains)
       THEN pc' = "ds_id" /\ di' = di + 1
       ELSE pc' = "done" /\ di' = di

\* main up to the first remote call: the configuration checks.
DS_Start ==
    /\ pc = "start"
    /\ env.script = "domain-setup"
    /\ pc' = IF config_error(env) THEN "exit1" ELSE "ds_id"
    /\ UNCHANGED <<env, aliases, mailboxes, di, cda, aliasLast, calls, fetchLast,
                   aliasKey, zone, dnsLast, step, wait, opLog, results>>

\* Mutant of after_lookup: the result of the lookup is not looked at.
after_lookup_Mut(found) == "go"

\* if not domain_id: return False / if not zone_id: return False
after_lookup(found) == IF found THEN "go" ELSE "fail"

\* What a lookup gave, as written to the log.
Outcome(found) == IF found THEN "found" ELSE "none"

\* get_domain_id: the id of the domain at the alias service, or None.
DS_GetDomainId ==
    /\ pc = "ds_id"
    /\ step' = 1
    /\ \E found \in BOOLEAN :
         /\ opLog' = <<<<"domain_id", Outcome(found)>>>>
         /\ IF after_lookup(found) = "go" THEN pc' = "ds_zone" /\ UNCHANGED <<di, results>>
            ELSE DS_NextDomain("setup_failed")
    /\ UNCHANGED <<env, aliases, mailboxes, cda, aliasLast, calls, fetchLast, aliasKey,
                   zone, dnsLast, wait>>

\* get_zone_id in setup_domain: the hosted zone of the domain, or None.
DS_ZoneCheck ==
    /\ pc = "ds_zone"
    /\ \E found \in BOOLEAN :
         /\ opLog' = Append(opLog, <<"zone", Outcome(found)>>)
         /\ IF after_lookup(found) = "go" THEN pc' = "ds_upsert" /\ UNCHANGED <<di, results>>
            ELSE DS_NextDomain("setup_failed")
    /\ UNCHANGED <<env, aliases, mailboxes, cda, aliasLast, calls, fetchLast, aliasKey,
                   zone, dnsLast, step, wait>>

\* One upsert of setup_domain and the manual confirmation after it.
DS_Step ==
    /\ pc = "ds_upsert"
    /\ DnsCall("domain-setup", DSSteps[step], env.domains[di])
    /\ opLog' = Append(opLog, <<"upsert", DSSteps[step]>>)
    /\ IF ~dnsLast'.ret THEN DS_NextDomain("setup_failed") /\ step' = step
       ELSE IF step < Len(DSSteps)
            THEN step' = step + 1 /\ UNCHANGED <<pc, di, results>>
            ELSE DS_NextDomain("ok") /\ step' = step
    /\ UNCHANGED <<env, aliases, mailboxes, cda, aliasLast, calls, fetchLast, aliasKey,
                   wait>>

\* A configuration of domain-setup.py, of at most MaxSetupDomains domains.
DSConfigs ==
    {c \in Configs("domain-setup") : Len(c.domains) <= MaxSetupDomains}

InitDomainSetup ==
    /\ env \in DSConfigs
    /\ aliases = <<>>
    /\ mailboxes = <<>>
    /\ aliasKey = TRUE
    /\ pc = "start"
    /\ di = 1
    /\ cda = NewCda
    /\ aliasLast = NoCall
    /\ calls = 0
    /\ fetchLast = NoFetch
    /\ zone = EmptyZones
    /\ dnsLast = NoDns
    /\ step = 1
    /\ wait = NoWait
    /\ opLog = <<>>
    /\ results = <<>>

NextDomainSetup == DS_Start \/ DS_GetDomainId \/ DS_ZoneCheck \/ DS_Step

SpecDomainSetup == InitDomainSetup /\ [][NextDomainSetup]_vars

----------------------------------------------------------------------------
(* The four scripts side by side: a run is a run of one of them *)

InitAll == Init \/ InitSetup \/ InitDomainSetup

NextAll == Next \/ NextSetup \/ NextDomainSetup

SpecAll == InitAll /\ [][NextAll]_vars

----------------------------------------------------------------------------
(* The command line of domain-alias-setup.py and create_alias.py: where main  *)
(* takes the credential, the domain(s) and the mailbox prefix(es) from        *)

\* What the user may give: the flags (empty when absent), the environment
\* (empty when unset), and the line typed when main asks for input.
CliArgs == [api_key : {"", "key-flag"}, domain : {"", "flag.example"},
            mailbox : {"", "info"}]
CliEnviron == [api_key : {"", "key-env"},
               domains : {<<>>, <<"example.com">>, <<"example.com", "other.org">>},
               prefixes : {<<>>, <<"sales">>, <<"sales", "support">>}]
CliTyped == {"2", "typed.example"}

\* a or b, on strings
Or(a, b) == IF a # "" THEN a ELSE b

\* The value of MAILBOX_PREFIX whose comma-separated items are the list.
Join(list) ==
    CASE list = <<>> -> ""
      [] list = <<"sales">> -> "sales"
      [] list = <<"sales", "support">> -> "sales,support"

\* create_alias.py: domains[int(choice)-1], or the line itself when it is not
\* the number of a listed domain.
choose_domain(domains, typed) ==
    IF typed = "2" /\ Len(domains) >= 2 THEN domains[2] ELSE typed

\* The domain list main works with, and whether input() was called for it.
resolve_domains(script, args, environ, typed) ==
    IF script = "domain-alias-setup"
    THEN [domains |-> environ.domains, prompted |-> FALSE]
    ELSE IF args.domain # "" THEN [domains |-> <<args.domain>>, prompted |-> FALSE]
    ELSE IF Len(environ.domains) = 1
         THEN [domains |-> environ.domains, prompted |-> FALSE]
    ELSE [domains |-> <<choose_domain(environ.domains, typed)>>, prompted |-> TRUE]

\* The mailbox prefixes main works with.
resolve_prefixes(script, args, environ) ==
    IF script = "domain-alias-setup" THEN environ.prefixes
    ELSE LET mailbox == Or(args.mailbox, Join(environ.prefixes))
         IN  IF mailbox = "" THEN <<>> ELSE <<mailbox>>

\* main from parse_args to the construction of the clients, the exits left to
\* the configuration checks; create_alias.py asks for the domain only once it
\* has the credential.
CLI_Resolve ==
    /\ pc = "cli"
    /\ LET key == Or(env.args.api_key, env.environ.api_key)
           d == resolve_domains(env.script, env.args, env.environ, env.typed)
       IN  env' = [env EXCEPT
                     !.key = key,
                     !.api_key = key # "",
                     !.domains = IF key = "" THEN <<>> ELSE d.domains,
                     !.prompted = key # "" /\ d.prompted,
                     !.prefixes = resolve_prefixes(env.script, env.args, env.environ)]
    /\ pc' = "start"
    /\ UNCHANGED <<aliases, mailboxes, di, cda, aliasLast, calls, fetchLast, aliasKey,
                   zone, dnsLast, step, wait, opLog, results>>

InitCli ==
    /\ env \in [script : {"domain-alias-setup", "create_alias"}, args : CliArgs,
                 environ : CliEnviron, typed : CliTyped, key : {""},
                 api_key : {FALSE}, domains : {<<>>}, prefixes : {<<>>},
                 default_mailbox : {<<>>}, prompted : {FALSE}]
    /\ aliases = <<>>
    /\ mailboxes = <<>>
    /\ aliasKey = TRUE
    /\ pc = "cli"
    /\ di = 1
    /\ cda = NewCda
    /\ aliasLast = NoCall
    /\ calls = 0
    /\ fetchLast = NoFetch
    /\ zone = EmptyZones
    /\ dnsLast = NoDns
    /\ step = 1
    /\ wait = NoWait
    /\ opLog = <<>>
    /\ results = <<>>

SpecCli == InitCli /\ [][CLI_Resolve \/ SU_Start]_vars

----------------------------------------------------------------------------
(* get_all_aliases on its own, against alias lists of every length *)

FetchAll ==
    /\ pc = "fetch"
    /\ \E failSet \in FailSets :
         LET r == get_all_aliases(aliases, failSet)
         IN  fetchLast' = [aliases |-> r.aliases, reqs |-> r.reqs,
                           failed |-> \E i \in DOMAIN r.reqs : r.reqs[i] \in failSet]
    /\ UNCHANGED <<env, aliases, mailboxes, pc, di, cda, aliasLast, calls, aliasKey,
                   zone, dnsLast,
                   step, wait, opLog, results>>

InitPages ==
    /\ env = [script |-> "get_all_aliases", api_key |-> TRUE, domains |-> <<>>,
              prefixes |-> <<>>, default_mailbox |-> <<>>]
    /\ aliases \in {Fillers(n) : n \in 0..MaxListed}
    /\ mailboxes = <<>>
    /\ aliasKey = TRUE
    /\ pc = "fetch"
    /\ di = 1
    /\ cda = NewCda
    /\ aliasLast = NoCall
    /\ calls = 0
    /\ fetchLast = NoFetch
    /\ zone = EmptyZones
    /\ dnsLast = NoDns
    /\ step = 1
    /\ wait = NoWait
    /\ opLog = <<>>
    /\ results = <<>>

SpecPages == InitPages /\ [][FetchAll]_vars

----------------------------------------------------------------------------
(* One create_alias call of create-aliases.py against an alias list of several *)
(* pages that holds the alias asked for                                          *)

\* An alias list of n entries, the alias asked for at position p among fillers.
Listed(n, p) ==
    [i \in 1..n |-> IF i = p THEN [id |-> i, email |-> Email("sales", "example.com"),
                                   has_alias_key |-> TRUE]
                    ELSE Filler(i)]

ScanLists ==
    {Listed(n, p) : n \in {PageSize - 1, PageSize, PageSize + 1, MaxScanned}, p \in 1..MaxScanned}

\* create_alias, the outcome of its get_all_aliases kept in fetchLast.
SC_Call ==
    /\ pc = "scan"
    /\ \E failSet \in FailSets :
         LET r == get_all_aliases(aliases, failSet)
         IN  /\ create_alias_scan(env.domains[1], env.prefixes[1], failSet)
             /\ fetchLast' = [aliases |-> r.aliases, reqs |-> r.reqs,
                               failed |-> \E i \in DOMAIN r.reqs : r.reqs[i] \in failSet]
    /\ pc' = "scanned"
    /\ UNCHANGED <<env, di, cda, aliasKey, zone, dnsLast, step, wait, opLog, results>>

InitScan ==
    /\ env = [script |-> "create-aliases", api_key |-> TRUE, domains |-> <<"example.com">>,
              prefixes |-> <<"sales">>, default_mailbox |-> <<>>]
    /\ aliases \in ScanLists
    /\ mailboxes \in InitMailboxLists
    /\ aliasKey = TRUE
    /\ pc = "scan"
    /\ di = 1
    /\ cda = NewCda
    /\ aliasLast = NoCall
    /\ calls = 0
    /\ fetchLast = NoFetch
    /\ zone = EmptyZones
    /\ dnsLast = NoDns
    /\ step = 1
    /\ wait = NoWait
    /\ opLog = <<>>
    /\ results = <<>>

SpecScan == InitScan /\ [][SC_Call]_vars

----------------------------------------------------------------------------
(* The loop of get_all_aliases, one page request at a time *)

\* One pass of the while loop: the request for the next page (page_id is the
\* number of requests made so far), the break on an empty page, the extend, the
\* break on a page of fewer than PageSize entries.
GA_Step ==
    /\ pc = "loop"
    /\ \E fails \in BOOLEAN :
         LET page_id == Len(fetchLast.reqs)
             page == get_aliases(aliases, page_id, fails)
             r == [fetchLast EXCEPT !.reqs = Append(@, page_id), !.failed = @ \/ fails]
         IN  IF page = <<>>
             THEN fetchLast' = r /\ pc' = "returned"
             ELSE /\ fetchLast' = [r EXCEPT !.aliases = @ \o page]
                  /\ pc' = IF LastPage(page) THEN "returned" ELSE "loop"
    /\ UNCHANGED <<env, aliases, mailboxes, di, cda, aliasLast, calls, aliasKey,
                   zone, dnsLast, step, wait, opLog, results>>

InitLoop ==
    /\ env = [script |-> "get_all_aliases", api_key |-> TRUE, domains |-> <<>>,
              prefixes |-> <<>>, default_mailbox |-> <<>>]
    /\ aliases \in {Fillers(n) : n \in 0..MaxListed}
    /\ mailboxes = <<>>
    /\ aliasKey = TRUE
    /\ pc = "loop"
    /\ di = 1
    /\ cda = NewCda
    /\ aliasLast = NoCall
    /\ calls = 0
    /\ fetchLast = NoFetch
    /\ zone = EmptyZones
    /\ dnsLast = NoDns
    /\ step = 1
    /\ wait = NoWait
    /\ opLog = <<>>
    /\ results = <<>>

\* The loop is sequential code: as long as it has not returned, its next pass
\* is taken.
SpecLoop == InitLoop /\ [][GA_Step]_vars /\ WF_vars(GA_Step)

----------------------------------------------------------------------------
(* Claims *)

Present(list, email) == \E i \in DOMAIN list : list[i].email = email

\* A step that is one create_alias call.
IsCall == calls' = calls + 1

\* C1: once prefix@domain is in the remote alias list, no later create_alias
\* call for that domain and prefix issues an alias-creation request.
C1_NoSecondCreation ==
    [][(IsCall /\ Present(aliases, target_alias(aliasLast'.domain, aliasLast'.prefix)))
         => aliasLast'.post = <<>>]_vars

\* C2: two create_alias calls in succession for the same domain and prefix, the
\* first of which returned an alias, return the same alias.
C2_SameResultTwice ==
    [][(IsCall /\ calls >= 1 /\ aliasLast.result # <<>>
          /\ aliasLast'.domain = aliasLast.domain
          /\ aliasLast'.prefix = aliasLast.prefix)
         => aliasLast'.result = aliasLast.result]_vars

\* C9: get_all_aliases asks for the pages 0, 1, 2, ... in this order; when every
\* page is served it returns the whole list of n aliases after n div 20 + 1 requests.
C9_Pagination ==
    /\ fetchLast.reqs = [i \in 1..Len(fetchLast.reqs) |-> i - 1]
    /\ (fetchLast.reqs # <<>> /\ ~fetchLast.failed)
         => /\ fetchLast.aliases = aliases
            /\ Len(fetchLast.reqs) = (Len(aliases) \div PageSize) + 1

\* Sizes 20, 20, 7: 47 aliases after 3 requests.
C9_Witness ==
    /\ fetchLast.reqs = <<0, 1, 2>>
    /\ Len(fetchLast.aliases) = 47
    /\ ~fetchLast.failed

\* C10: when create_domain_aliases is over, create_alias was attempted for every
\* prefix of the list, in list order, and it returned true exactly when every
\* attempt returned an alias.
C10_EveryPrefixAttempted ==
    cda.ret # "none"
      => /\ [i \in DOMAIN cda.attempts |-> cda.attempts[i].prefix] = env.prefixes
         /\ (cda.ret = "true") <=> (\A i \in DOMAIN cda.attempts : cda.attempts[i].ok)
         /\ cda.ret \in {"true", "false"}

\* A step that is one DNS upsert call.
IsDnsCall == dnsLast'.tick # dnsLast.tick

\* C7: an upsert called again right after the same upsert returned success, on
\* the same zone, issues no change request and returns success (stated for calls
\* whose zone lookup and record reads all succeed).
C7_SecondUpsertNoOp ==
    [][(IsDnsCall /\ dnsLast.ret /\ dnsLast.zone_found /\ dnsLast.read_failed = {}
          /\ dnsLast'.op = dnsLast.op /\ dnsLast'.impl = dnsLast.impl
          /\ dnsLast'.domain = dnsLast.domain
          /\ dnsLast'.zone_found /\ dnsLast'.read_failed = {})
         => (dnsLast'.requests = <<>> /\ dnsLast'.ret)]_vars

IsDkimCall == IsDnsCall /\ dnsLast'.impl = "domain-setup" /\ dnsLast'.op = "dkim"

\* The names of the record sets in the change requests of the last call, and
\* whether each change carries the desired value of its record set.
BatchNames(call) == {call.requests[1][i].name : i \in DOMAIN call.requests[1]}
BatchDesired(call) ==
    \A i \in DOMAIN call.requests[1] :
        call.requests[1][i].vals = <<DkimValue(call.requests[1][i].name)>>

\* The DKIM sub-records of a zone that are absent or hold another value.
Differing(z) ==
    {x \in {"dkim", "dkim02", "dkim03"} : z[x] = <<>> \/ z[x][1].vals[1] # DkimValue(x)}

\* C8 as stated: with S the sub-records that are absent or differ, create_dkim_records
\* issues one change request with exactly the changes for S when S is not empty,
\* and none when S is empty.
C8_BatchOfDiffering ==
    [][IsDkimCall =>
         LET S == Differing(zone[dnsLast'.domain])
         IN  IF S = {} THEN dnsLast'.requests = <<>>
             ELSE /\ Len(dnsLast'.requests) = 1
                  /\ Len(dnsLast'.requests[1]) = Cardinality(S)
                  /\ BatchNames(dnsLast') = S
                  /\ BatchDesired(dnsLast')]_vars

\* C8 amended: when the zone lookup succeeds, with S the sub-records that are
\* absent, differ, or whose lookup failed, one change request with exactly the
\* changes for S when S is not empty and none when S is empty; when the zone
\* lookup fails, no change request and the result false.
C8_BatchOfSeenDiffering ==
    [][IsDkimCall =>
         LET S == Differing(zone[dnsLast'.domain]) \cup dnsLast'.read_failed
         IN  IF ~dnsLast'.zone_found THEN dnsLast'.requests = <<>> /\ ~dnsLast'.ret
             ELSE IF S = {} THEN dnsLast'.requests = <<>> /\ dnsLast'.ret
             ELSE /\ Len(dnsLast'.requests) = 1
                  /\ Len(dnsLast'.requests[1]) = Cardinality(S)
                  /\ BatchNames(dnsLast') = S
                  /\ BatchDesired(dnsLast')]_vars

\* One sub-record matches and two differ: one request with the two changes (the
\* request failed, so the zone still shows what the call found).
C8_Witness ==
    /\ dnsLast.impl = "domain-setup" /\ dnsLast.op = "dkim"
    /\ dnsLast.zone_found /\ dnsLast.read_failed = {} /\ ~dnsLast.ret
    /\ Cardinality(Differing(zone[dnsLast.domain])) = 2
    /\ Len(dnsLast.requests) = 1
    /\ BatchNames(dnsLast) = Differing(zone[dnsLast.domain])
    /\ Len(dnsLast.requests[1]) = 2

\* The order of remote operations the workflow is to follow for one domain.
ExpectedOps ==
    <<<<"code", "">>, <<"upsert", "verification">>, <<"poll", "ownership">>,
      <<"upsert", "mx">>, <<"poll", "mx">>, <<"upsert", "spf">>, <<"poll", "spf">>,
      <<"upsert", "dkim">>, <<"poll", "dkim">>, <<"upsert", "dmarc">>>>

\* C3: the remote operations issued for one domain are, in order and each once
\* (polls of one step counted once), a beginning of: verification code, upsert
\* verification, poll ownership, upsert MX, poll mx, upsert SPF, poll spf, upsert
\* DKIM, poll dkim, upsert DMARC.
C3_OrderedSteps ==
    /\ Len(opLog) <= Len(ExpectedOps)
    /\ \A i \in 1..Len(opLog) : i <= Len(ExpectedOps) => opLog[i] = ExpectedOps[i]

\* A step of setup_domain fails: an upsert returns failure or a poll loop runs out.
StepFails ==
    \/ pc = "upsert" /\ IsDnsCall /\ ~dnsLast'.ret
    \/ pc = "sleep" /\ wait'.ret = "false"

\* C4: in the batch workflow a failed upsert or an exhausted poll budget ends
\* the work on that domain, which is reported failed, and the loop goes on with
\* the first step of the next domain; remote operations are only ever issued for
\* the one domain not yet reported, and the run ends with every domain reported.
C4_FailureSkipsToNextDomain ==
    /\ [](IsBatch =>
            /\ pc \in {"getcode", "upsert", "poll", "sleep", "cda"}
                  => Len(results) = di - 1
            /\ pc = "done" => Len(results) = Len(env.domains))
    /\ [][(IsBatch /\ StepFails) =>
            /\ results' = Append(results, "setup_failed")
            /\ opLog' \in {opLog, Append(opLog, <<"upsert", Lower(StepNames[step])>>)}
            /\ zone' = zone
            /\ IF di < Len(env.domains)
               THEN pc' = "getcode" /\ di' = di + 1
               ELSE pc' = "done"]_vars
    /\ [][(IsBatch /\ pc = "getcode" /\ pc' = "upsert") =>
            (step' = 1 /\ opLog' = <<<<"code", "">>>>)]_vars

\* A domain failed in its setup and the next one went through all its steps.
C4_Witness ==
    /\ IsBatch
    /\ results = <<"setup_failed", "ok">>
    /\ zone["example.com"] # zone["other.org"]

\* C5: a poll loop that returned true made k polls, 1 <= k <= 10, the k-th the
\* first to report true, with k - 1 sleeps of 30 between them, and no poll is
\* made in a loop that has returned.
C5_PollUntilTrue ==
    /\ pc \in {"poll", "sleep"} => wait.ret = "none"
    /\ wait.ret = "true" =>
         LET k == Len(wait.answers)
         IN  /\ k >= 1 /\ k <= 10
             /\ wait.answers[k]
             /\ \A i \in 1..(k - 1) : ~wait.answers[i]
             /\ wait.sleeps = k - 1
             /\ wait.slept = 30 * (k - 1)

\* The answers false, false, true: three polls and two sleeps.
C5_Witness ==
    /\ wait.ret = "true"
    /\ wait.answers = <<FALSE, FALSE, TRUE>>
    /\ wait.sleeps = 2
    /\ wait.slept = 60

\* C6: a poll loop never makes an 11th poll; after the 10th answer that is not
\* true it returns false, and false is returned only then, as a value: the
\* batch reports the domain failed and goes on, the single-domain script exits
\* with status 1.
C6_PollBudget ==
    /\ Len(wait.answers) <= 10
    /\ (Len(wait.answers) = 10 /\ ~wait.answers[10])
          => (pc = "sleep" \/ wait.ret = "false")
    /\ wait.ret = "false" =>
          /\ Len(wait.answers) = 10
          /\ \A i \in 1..10 : ~wait.answers[i]
          /\ pc # "crashed"
          /\ IsBatch => (wait.di <= Len(results) /\ results[wait.di] = "setup_failed")
          /\ ~IsBatch => pc = "exit1"

\* Ten answers, none of them true, and the loop returned false.
C6_Witness ==
    /\ wait.ret = "false"
    /\ Len(wait.answers) = 10
    /\ wait.last = "unverified"

\* A step that is one call of verify_domain_setup which got an answer.
IsPoll == pc = "poll" /\ Len(wait'.answers) = Len(wait.answers) + 1

\* C11: a poll loop returns true only on a poll answered with status 200 and
\* verified = true; a poll answered with another status or with verified = false
\* is an unverified attempt, followed by the sleep; and the upsert of a step
\* after the first is only issued when the poll loop of the step before it, for
\* the same domain, returned true on such an answer.
C11_VerifiedOnlyOnTrue ==
    /\ [](wait.ret = "true" => wait.last = "verified")
    /\ [][IsPoll =>
            IF wait'.last = "verified"
            THEN wait'.answers[Len(wait'.answers)] /\ wait'.ret = "true"
            ELSE /\ wait'.last \in {"unverified", "non200"}
                 /\ ~wait'.answers[Len(wait'.answers)]
                 /\ wait'.ret = "none" /\ pc' = "sleep" /\ step' = step]_vars
    /\ [][(pc = "upsert" /\ IsDnsCall /\ step > 1) =>
            /\ wait.ret = "true" /\ wait.last = "verified"
            /\ wait.di = di
            /\ wait.step = PollStep(env.script, step - 1)]_vars

\* A non-success answer, then verified = true: the MX upsert is about to start.
C11_Witness ==
    /\ pc = "upsert" /\ step = 2
    /\ wait.answers = <<FALSE, TRUE>>
    /\ wait.last = "verified"
    /\ opLog[Len(opLog)][1] = "poll"

\* The states of the per-domain state machine, in order; Failed stands apart.
StateNames == <<"Start", "VerifyingOwnership", "VerifyingMX", "VerifyingSPF",
                "VerifyingDKIM", "DMARCSet">>

StateIndex(st) == CHOOSE i \in DOMAIN StateNames : StateNames[i] = st

\* The state a domain is in once the upsert named op has been issued for it.
StateAfter(op) ==
    CASE op = "verification" -> "VerifyingOwnership"
      [] op = "mx" -> "VerifyingMX"
      [] op = "spf" -> "VerifyingSPF"
      [] op = "dkim" -> "VerifyingDKIM"
      [] op = "dmarc" -> "DMARCSet"

\* The state of the domain being worked on, read off the remote operations
\* issued for it: the last upsert names it.
ActiveState ==
    LET U == {i \in DOMAIN opLog : opLog[i][1] = "upsert"}
    IN  IF U = {} THEN "Start"
        ELSE StateAfter(opLog[CHOOSE i \in U : \A j \in U : j <= i][2])

\* The state of the d-th domain of the list: what main reported for it, where it
\* stands if it is the one being worked on, Start if its turn has not come.
DomState(d) ==
    IF d <= Len(results)
    THEN IF results[d] = "setup_failed" THEN "Failed" ELSE "DMARCSet"
    ELSE IF d # di \/ pc \in {"start", "getcode"} THEN "Start"
    ELSE IF pc = "exit1"
         THEN IF opLog = <<>> THEN "Start" ELSE IF calls > 0 THEN "DMARCSet" ELSE "Failed"
    ELSE ActiveState

\* setup_domain returns True (batch); main reaches the alias creation (single).
SetupSucceeds == pc \in {"upsert"} /\ pc' \in {"cda", "alias"}

\* C12: the state of each domain only moves from a state to the next one of
\* Start, VerifyingOwnership, VerifyingMX, VerifyingSPF, VerifyingDKIM, DMARCSet,
\* or from a state before DMARCSet to Failed; nothing leaves Failed or DMARCSet;
\* before every upsert a step to Failed is possible; and setup succeeds exactly
\* on the step that reaches DMARCSet, the DMARC upsert having returned success.
C12_StateMachine ==
    /\ [][\A d \in 1..Len(env.domains) :
            LET a == DomState(d)
                b == DomState(d)'
            IN  \/ a = b
                \/ /\ a \notin {"Failed", "DMARCSet"}
                   /\ b = "Failed" \/ StateIndex(b) = StateIndex(a) + 1]_vars
    /\ [](pc = "upsert" =>
            /\ DomState(di) = StateNames[step]
            /\ ENABLED (SU_Upsert /\ ~dnsLast'.ret /\ pc' # "poll"))
    /\ [][(SetupSucceeds \/ (DomState(di) # "DMARCSet" /\ DomState(di)' = "DMARCSet"))
            => /\ SetupSucceeds
               /\ DomState(di) = "VerifyingDKIM" /\ DomState(di)' = "DMARCSet"
               /\ dnsLast'.op = "dmarc" /\ dnsLast'.ret
               /\ opLog' = [i \in 1..Len(opLog') |->
                              IF ExpectedOps[i] = <<"poll", "ownership">>
                              THEN <<"poll", PollStep(env.script, 1)>>
                              ELSE ExpectedOps[i]]
               /\ Len(opLog') = Len(ExpectedOps)]_vars

\* One domain went through every state to DMARCSet after another one failed
\* while VerifyingSPF.
C12_Witness ==
    /\ IsBatch
    /\ Len(results) = 1 /\ DomState(1) = "Failed"
    /\ zone[env.domains[1]]["TXT"] = Rec(TTL3600, <<SPF>>)
    /\ zone[env.domains[1]]["dkim"] = <<>>
    /\ di = 2 /\ DomState(2) = "DMARCSet"
    /\ env.domains[2] # env.domains[1]

\* The answer opt of the options endpoint offers a custom suffix of the domain.
Offers(opt, domain) ==
    /\ opt # <<>> /\ opt[1][1] = "ok"
    /\ \E i \in DOMAIN opt[1][2] : opt[1][2][i].is_custom /\ opt[1][2][i].d = domain

\* The options endpoint was asked and offered a custom suffix of the call's domain.
Offered(c) == Offers(c.opt, c.domain)

\* C13: a create_alias call of create-aliases.py whose options request fails,
\* which is offered no custom suffix of the domain, or which finds no mailbox
\* (none configured or obtainable, none flagged default) returns None without a
\* creation request; a creation request answered with another status than 201
\* returns None; in each case the remote alias list is as before and the loop of
\* create_domain_aliases goes on, with success false.
C13_FailureConditions ==
    [][(IsCall /\ aliasLast'.opt # <<>>) =>
         LET c == aliasLast'
             noOptions == c.opt[1][1] = "fail"
             noSuffix == ~Offered(c)
             noMailbox == Offered(c) /\ c.mb = <<>>
             refused == c.post # <<>> /\ c.post_status # 201
         IN  /\ (noOptions \/ noSuffix \/ noMailbox) => c.post = <<>>
             /\ (Offered(c) /\ env.default_mailbox = <<>>
                   /\ \A i \in DOMAIN mailboxes : ~mailboxes[i].default) => c.mb = <<>>
             /\ (noOptions \/ noSuffix \/ noMailbox \/ refused)
                  => /\ c.result = <<>>
                     /\ aliases' = aliases
                     /\ pc' = "cda"
                     /\ ~cda'.success
                     /\ Len(cda'.attempts) = Len(cda.attempts) + 1]_vars

\* A custom suffix was offered, no mailbox was found: None and no creation request.
C13_Witness ==
    /\ Offered(aliasLast) /\ aliasLast.mb = <<>>
    /\ aliasLast.mb_gets = 2 /\ aliasLast.mb_post # <<>>
    /\ aliasLast.post = <<>> /\ aliasLast.result = <<>>
    /\ pc = "cda" /\ ~cda.success

\* The process ended on the key lookup result['alias'] of create_domain_aliases
\* or main, the call before it having returned an object.
DiedOnMissingKey ==
    /\ pc = "crashed"
    /\ aliasLast.result # <<>> /\ ~has_key_alias(aliasLast.result[1])

\* C14: no failure of a remote call, a non-success status or an exception of
\* the transport, ends the process: a process that ended on an exception did so
\* on something else than a remote call.
C14_RemoteErrorsSwallowed == pc = "crashed" => DiedOnMissingKey

\* The credential is missing, or a list the script needs is missing or empty:
\* the domains, and for the scripts that create aliases the mailbox prefixes.
ConfigMissing ==
    \/ ~env.api_key
    \/ env.domains = <<>>
    \/ /\ env.script \in {"create-aliases", "domain-alias-setup", "create_alias"}
       /\ env.prefixes = <<>>

\* No request has been made to the alias service or to the DNS service.
NoRemoteRequest ==
    /\ calls = 0 /\ aliasLast = NoCall
    /\ dnsLast = NoDns /\ zone = EmptyZones
    /\ opLog = <<>> /\ wait = NoWait

\* C15: a script started without its credential or with a required list missing
\* or empty makes no remote request and its only step is the exit with code 1.
C15_ConfigErrorsFatal ==
    /\ [](ConfigMissing => (pc \in {"start", "exit1"} /\ NoRemoteRequest))
    /\ [][(ConfigMissing /\ pc = "start") => pc' = "exit1"]_vars

\* The batch script, started with an empty prefix list, has exited.
C15_Witness ==
    /\ env.script = "domain-alias-setup"
    /\ env.api_key /\ env.domains # <<>> /\ env.prefixes = <<>>
    /\ pc = "exit1"
    /\ NoRemoteRequest

\* The scenario: example.com with the prefixes sales and support, no alias at
\* the start (every listed alias is one the run created), the mailbox
\* default@example.com flagged default.
Scenario ==
    /\ env.script = "create-aliases"
    /\ env.domains = <<"example.com">>
    /\ env.prefixes = <<"sales", "support">>
    /\ \A i \in DOMAIN aliases : aliases[i].email # FillerEmail
    /\ \E i \in DOMAIN mailboxes :
         mailboxes[i].email = "default@example.com" /\ mailboxes[i].default

\* The workflow is over, the remote answered every request made with success
\* and offered a custom suffix of example.com whenever asked for the options.
ScenarioOver ==
    /\ pc \in {"main", "done", "crashed"}
    /\ \A i \in DOMAIN cda.attempts : cda.attempts[i].clean

\* C16: in the scenario, with a remote that answers every request with success
\* and offers a custom suffix of example.com, the workflow makes two creation
\* requests, sales@example.com then support@example.com, both calls return an
\* alias object and create_domain_aliases returns true.
C16_EndToEnd ==
    (Scenario /\ ScenarioOver) =>
        /\ calls = 2
        /\ [i \in DOMAIN aliases |-> aliases[i].email]
             = <<Email("sales", "example.com"), Email("support", "example.com")>>
        /\ Len(cda.attempts) = 2
        /\ cda.attempts[1].ok /\ cda.attempts[2].ok
        /\ cda.ret = "true"

\* The number of mailboxes of a list with the given email.
CountEmail(list, email) == Cardinality({i \in DOMAIN list : list[i].email = email})

\* C17: a get_or_create_mailbox call (made by create_alias for the configured
\* default mailbox) issues no mailbox-creation request when a mailbox with that
\* email is in the remote mailbox list and exactly one otherwise, and never
\* leaves the list with a second mailbox of that email.
C17_MailboxOnce ==
    [][(IsCall /\ env.default_mailbox # <<>> /\ Offered(aliasLast')) =>
         LET email == env.default_mailbox[1]
         IN  /\ aliasLast'.mb_post = IF Present(mailboxes, email) THEN <<>> ELSE <<email>>
             /\ CountEmail(mailboxes, email) <= 1 => CountEmail(mailboxes', email) <= 1]_vars

\* C18: once main has settled its configuration, the credential, the domain and
\* the mailbox prefix are those of the flag when the flag was given, else those
\* of the environment, and input was asked for only when neither the flag nor
\* the environment held a domain.
C18_FlagThenEnvThenPrompt ==
    pc = "start" =>
        /\ env.key = IF env.args.api_key # "" THEN env.args.api_key
                     ELSE env.environ.api_key
        /\ env.key # "" =>
             /\ env.args.domain # "" => env.domains = <<env.args.domain>>
             /\ (env.args.domain = "" /\ env.environ.domains # <<>>) =>
                  \A i \in DOMAIN env.domains :
                     \E j \in DOMAIN env.environ.domains :
                        env.domains[i] = env.environ.domains[j]
             /\ env.prompted => (env.args.domain = "" /\ env.environ.domains = <<>>)
        /\ env.args.mailbox # "" => env.prefixes = <<env.args.mailbox>>
        /\ (env.args.mailbox = "" /\ env.environ.prefixes # <<>>) => env.prefixes # <<>>

\* C19: every create_alias call begins with the fetch of the alias list, and
\* when prefix@domain is in the remote list the call returns the listed alias
\* and asks for no alias options, no mailbox and no alias creation.
C19_ScanBeforeCreate ==
    [][IsCall =>
         /\ aliasLast'.pages # <<>>
         /\ Present(aliases, target_alias(aliasLast'.domain, aliasLast'.prefix)) =>
              /\ aliasLast'.result
                   = find_alias(aliases, target_alias(aliasLast'.domain, aliasLast'.prefix))
              /\ ~aliasLast'.options
              /\ aliasLast'.mb_gets = 0
              /\ aliasLast'.mb_post = <<>>
              /\ aliasLast'.post = <<>>]_vars

\* The values a record set is to hold once the workflow of domain-setup.py is done.
DesiredVals(name) ==
    CASE name = "MX" -> <<MX1, MX2>>
      [] name = "TXT" -> <<SPF>>
      [] name = "_dmarc" -> <<DMARC>>
      [] OTHER -> <<DkimValue(name)>>

ValueSet(vals) == {vals[i] : i \in DOMAIN vals}

\* The record sets of an upsert that are absent or whose value set is not the
\* desired one.
Unequal(op, z) ==
    {n \in ReadNames(op) :
        z[n] = <<>> \/ ValueSet(z[n][1].vals) # ValueSet(DesiredVals(n))}

\* C20: an upsert of domain-setup.py issues a change request exactly when one of
\* its record sets is absent or holds another value set than the desired one
\* (order apart); it then issues one request, an UPSERT of the desired values
\* with the fixed TTL for those record sets (stated for calls whose zone lookup
\* and record reads all succeed).
C20_ChangeIffValueSetDiffers ==
    [][(IsDnsCall /\ dnsLast'.impl = "domain-setup"
          /\ dnsLast'.zone_found /\ dnsLast'.read_failed = {}) =>
         LET S == Unequal(dnsLast'.op, zone[dnsLast'.domain])
         IN  IF S = {} THEN dnsLast'.requests = <<>>
             ELSE /\ Len(dnsLast'.requests) = 1
                  /\ BatchNames(dnsLast') = S
                  /\ \A i \in DOMAIN dnsLast'.requests[1] :
                        /\ dnsLast'.requests[1][i].vals
                             = DesiredVals(dnsLast'.requests[1][i].name)
                        /\ dnsLast'.requests[1][i].ttl = TTL]_vars

\* The step names of the verification endpoint, in workflow order.
PolledSteps == <<"ownership", "mx", "spf", "dkim">>

\* C21: the poll loop that follows the upsert of step i asks about the i-th of
\* ownership, mx, spf, dkim (ownership after the verification TXT), and no poll
\* loop is started for another step name.
C21_PolledStepNames ==
    wait.step # "" =>
        /\ step \in 1..Len(PolledSteps) + 1
        /\ wait.step \in {PolledSteps[i] : i \in DOMAIN PolledSteps}
        /\ pc \in {"poll", "sleep"} => wait.step = PolledSteps[step]

Yielded(c) == env.default_mailbox # <<>> /\ c.mb_gets = 1

\* C23: the creation request of create_alias (create-aliases.py) carries one
\* mailbox id: that of the mailbox get_or_create_mailbox gave for the configured
\* address (the listed one, or the one just created), and when no address is
\* configured or get_or_create_mailbox gave none, that of the first mailbox of
\* the mailbox list flagged default.
C23_MailboxResolution ==
    [][(IsCall /\ aliasLast'.post # <<>>) =>
         LET c == aliasLast'
             ids == c.post[1].mailbox_ids
         IN  /\ Len(ids) = 1
             /\ c.mb # <<>> /\ ids[1] = c.mb[1].id
             /\ Yielded(c) =>
                  /\ c.mb[1].email = env.default_mailbox[1]
                  /\ IF c.mb_post = <<>>
                     THEN c.mb = find_mailbox(mailboxes, env.default_mailbox[1])
                     ELSE /\ mailboxes' = Append(mailboxes, c.mb[1])
                          /\ \A i \in DOMAIN mailboxes : mailboxes[i].id # c.mb[1].id
             /\ ~Yielded(c) =>
                  /\ c.mb = first_default(mailboxes')
                  /\ c.mb[1].default
                  /\ mailboxes' = mailboxes]_vars

\* An address is configured, get_or_create_mailbox gave nothing, and the request
\* carries the id of the mailbox flagged default, the second of the list.
C23_Witness ==
    /\ env.default_mailbox # <<>>
    /\ aliasLast.mb_gets = 2 /\ aliasLast.mb_post # <<>>
    /\ aliasLast.post # <<>>
    /\ aliasLast.post[1].mailbox_ids = <<52>>
    /\ Len(mailboxes) = 2 /\ mailboxes[2].default /\ ~mailboxes[1].default

\* The apex TXT record set of the domain being set up.
ApexTxt == zone[env.domains[di]]["TXT"]

\* setup_domain (or main of create_alias.py) is at work on the domain at di.
InSetup == pc \in {"upsert", "poll", "sleep", "cda", "alias"}

\* The upsert of DNS step i has succeeded for that domain.
StepDone(i) == step > i \/ (step = i /\ pc \in {"poll", "sleep", "cda", "alias"})

\* C24: in domain-alias-setup.py and create_alias.py the verification TXT and the
\* SPF TXT go to the same record set, the apex TXT, each upsert replacing what
\* is there: from the verification upsert to the SPF upsert the record set is
\* the verification code alone, and once the SPF upsert has succeeded it is the
\* SPF value alone, the code gone.
C24_SpfReplacesVerification ==
    /\ [](InSetup =>
            /\ (StepDone(1) /\ ~StepDone(3)) => ApexTxt = Rec(TTL3600, <<VerificationCode>>)
            /\ StepDone(3) =>
                 /\ ApexTxt = Rec(TTL3600, <<SPF>>)
                 /\ \A i \in DOMAIN ApexTxt[1].vals : ApexTxt[1].vals[i] # VerificationCode)
    /\ [][(IsDnsCall /\ dnsLast'.impl = "domain-alias-setup"
            /\ dnsLast'.op \in {"verification", "spf"} /\ dnsLast'.requests # <<>>) =>
             /\ Len(dnsLast'.requests[1]) = 1
             /\ dnsLast'.requests[1][1].name = "TXT"
             /\ dnsLast'.ret => zone'[dnsLast'.domain]["TXT"]
                                  = Rec(TTL3600, dnsLast'.requests[1][1].vals)]_vars

\* The SPF upsert has just succeeded on the record set that held the code.
C24_Witness ==
    /\ pc = "poll" /\ step = 3 /\ wait.attempts = 0 /\ wait.answers = <<>>
    /\ dnsLast.op = "spf" /\ dnsLast.ret
    /\ ApexTxt = Rec(TTL3600, <<SPF>>)

\* The operation log of a domain whose setup went through: the code, the five
\* upserts in order, a poll loop after each of the first four.
SetupComplete(log) ==
    /\ Len(log) = Len(ExpectedOps)
    /\ \A i \in DOMAIN log : log[i][1] = ExpectedOps[i][1]
    /\ \A i \in DOMAIN log : log[i][1] = "upsert" => log[i] = ExpectedOps[i]

\* C25: in domain-alias-setup.py create_alias is called only for the domain at
\* hand, after setup_domain returned true for it (the five upserts succeeded,
\* the four poll loops returned true, the DMARC upsert last); a domain reported
\* setup_failed has had no create_alias call and gets none; the domains are
\* reported one by one in list order.
C25_AliasesOnlyAfterSetup ==
    /\ [][(IsBatch /\ IsCall) =>
            /\ aliasLast'.domain = env.domains[di]
            /\ Len(results) = di - 1
            /\ SetupComplete(opLog)
            /\ dnsLast.op = "dmarc" /\ dnsLast.ret /\ dnsLast.domain = env.domains[di]
            /\ wait.ret = "true" /\ wait.di = di /\ wait.step = PollStep(env.script, 4)]_vars
    /\ [][(IsBatch /\ results' # results) =>
            /\ \E outcome \in {"ok", "setup_failed", "aliases_failed"} :
                  results' = Append(results, outcome)
            /\ Len(results) = di - 1
            /\ IF di < Len(env.domains) THEN di' = di + 1 /\ pc' = "getcode"
               ELSE di' = di /\ pc' = "done"
            /\ results'[di] = "setup_failed" =>
                 (cda'.attempts = <<>> /\ calls' = calls /\ pc # "cda"
                  /\ ~(SetupComplete(opLog') /\ dnsLast'.ret))
            /\ results'[di] # "setup_failed" => (pc = "cda" /\ SetupComplete(opLog))]_vars
    /\ [][IsBatch => di' \in {di, di + 1}]_vars

\* The first domain failed in its setup and has no alias; the second was set up
\* and has one.
C25_Witness ==
    /\ IsBatch /\ di = 2 /\ results = <<"setup_failed">>
    /\ env.domains[1] # env.domains[2]
    /\ pc = "cda" /\ calls = 1 /\ aliasLast.result # <<>>
    /\ \A i \in DOMAIN aliases : aliases[i].email.d = env.domains[2]

\* The page on which position i of the alias list lies.
PageOf(i) == (i - 1) \div PageSize

\* C26: when the fetch of page k fails in the get_all_aliases of a create_alias
\* call, what get_all_aliases returns is the pages 0..k-1 and is what it returns,
\* after the same requests, from a list that ends before page k; and the call,
\* for an alias that is on a page >= k only, goes on to the options request as
\* for an alias that does not exist.
C26_FailedPageEndsList ==
    [][(IsCall /\ fetchLast'.failed) =>
         LET k == fetchLast'.reqs[Len(fetchLast'.reqs)]
             seen == SubSeq(aliases, 1, k * PageSize)
             asIfEnd == get_all_aliases(seen, {})
             target == target_alias(aliasLast'.domain, aliasLast'.prefix)
         IN  /\ fetchLast'.reqs = [i \in 1..(k + 1) |-> i - 1]
             /\ k * PageSize <= Len(aliases)
             /\ fetchLast'.aliases = seen
             /\ asIfEnd.aliases = fetchLast'.aliases /\ asIfEnd.reqs = fetchLast'.reqs
             /\ aliasLast'.pages = fetchLast'.reqs
             /\ (\A i \in DOMAIN aliases : aliases[i].email = target => PageOf(i) >= k)
                  => aliasLast'.options]_vars

\* The alias is on page 1 only, the fetch of page 1 failed, and the call created
\* it a second time.
C26_Witness ==
    /\ fetchLast.failed /\ fetchLast.reqs = <<0, 1>>
    /\ Len(fetchLast.aliases) = PageSize
    /\ aliasLast.options /\ aliasLast.result # <<>> /\ aliasLast.post # <<>>
    /\ Cardinality({i \in DOMAIN aliases :
                      aliases[i].email = Email("sales", "example.com")}) = 2

\* The number of entries the pass just made got from its page request.
Got == Len(fetchLast'.aliases) - Len(fetchLast.aliases)

\* C27: against every finite alias list get_all_aliases returns, after at most
\* one request more than the list has full pages; a pass ends the loop exactly
\* when its page (served, empty or failed) has fewer than PageSize entries, and
\* after a page of PageSize entries the next page is requested, whatever the
\* number of pages read so far.
C27_LoopEndsOnShortPage ==
    /\ <>(pc = "returned")
    /\ [](pc = "returned" => Len(fetchLast.reqs) <= (Len(aliases) \div PageSize) + 1)
    /\ [](pc = "loop" => ENABLED GA_Step)
    /\ [][pc = "loop" =>
            /\ fetchLast'.reqs = Append(fetchLast.reqs, Len(fetchLast.reqs))
            /\ (pc' = "returned") <=> (Got < PageSize)
            /\ (pc' = "loop") <=> (Got >= PageSize)]_vars
    /\ [][pc = "returned" => UNCHANGED vars]_vars

\* Two full pages were read and the loop is still running.
C27_Witness ==
    /\ pc = "loop" /\ fetchLast.reqs = <<0, 1>>
    /\ Len(fetchLast.aliases) = 2 * PageSize
    /\ Len(aliases) > 2 * PageSize

\* A step of domain-setup.py that is one upsert call.
IsDsCall == IsDnsCall /\ dnsLast'.impl = "domain-setup"

\* C28: in domain-setup.py an upsert is called for a domain only after the
\* domain id lookup and the hosted-zone lookup of setup_domain both found it, a
\* domain for which one of them found nothing is reported failed with no upsert
\* call and no change of any zone; an upsert whose own zone lookup finds nothing
\* returns false, reads no record, issues no change request and leaves the zone
\* as it is; a zone changes only through a change request of an upsert whose
\* zone lookup succeeded.
C28_NoChangeWithoutLookups ==
    /\ [][IsDsCall =>
            /\ Len(opLog) >= 2
            /\ opLog[1] = <<"domain_id", "found">> /\ opLog[2] = <<"zone", "found">>
            /\ dnsLast'.domain = env.domains[di]
            /\ ~dnsLast'.zone_found =>
                 /\ ~dnsLast'.ret
                 /\ dnsLast'.reads = {} /\ dnsLast'.read_failed = {}
                 /\ dnsLast'.requests = <<>>
                 /\ zone' = zone]_vars
    /\ [][(opLog' # opLog /\ opLog'[Len(opLog')][2] = "none") =>
            /\ results' = Append(results, "setup_failed")
            /\ dnsLast' = dnsLast /\ zone' = zone
            /\ \A i \in DOMAIN opLog' : opLog'[i][1] # "upsert"
            /\ pc' \in {"ds_id", "done"}]_vars
    /\ [][zone' # zone =>
            /\ IsDnsCall /\ dnsLast'.zone_found /\ dnsLast'.requests # <<>>
            /\ \A d \in Domains : d # dnsLast'.domain => zone'[d] = zone[d]]_vars

\* Both lookups of setup_domain succeeded; the zone lookup of create_spf_record
\* found nothing: the MX record set written before is all the zone holds.
C28_Witness ==
    /\ dnsLast.impl = "domain-setup" /\ dnsLast.op = "spf"
    /\ ~dnsLast.zone_found /\ ~dnsLast.ret /\ dnsLast.requests = <<>>
    /\ opLog[2] = <<"zone", "found">>
    /\ zone[dnsLast.domain]["MX"] = Rec(TTL, <<MX1, MX2>>)
    /\ zone[dnsLast.domain]["TXT"] = <<>>
    /\ results = <<"setup_failed">>

============================================================================
